---- MODULE Spec2Model ----
(***************************************************************************)
(* The connection lifecycle of hbmqtt's MQTTClient                         *)
(* (src/hbmqtt/client/_client.py): the transitions Machine built by        *)
(* _init_states, the session builder _init_session, and the coroutines     *)
(* connect_async/_connect_coro, disconnect/_disconnect_coro and            *)
(* ping/_ping_coro, cut into the atomic steps that lie between two         *)
(* suspension points (yield from) of the event loop.  BuilderSpec applies   *)
(* _init_session on its own to every combination of its sources.           *)
(*                                                                         *)
(* Python values: None is "None" for strings and NonePort for ports; a     *)
(* dictionary key that is absent and a key that holds None are the same    *)
(* value here, because every test the code makes on them (not in / is not  *)
(* None / truthiness) treats them alike, except the key 'mqtt' of the      *)
(* broker section, which is kept as a boolean.  A stream reader or writer  *)
(* is the number of the transport it belongs to, 0 being None.             *)
(***************************************************************************)
EXTENDS Integers, Sequences, FiniteSets, TLC

\* ---------------------------------------------------------------- bounds
MaxConnects == 2
MaxTransports == 2
MaxFired == 4

\* ------------------------------------------------------- program constants
NonePort == -1

\* _defaults, lines 20-22
_defaults == [keep_alive |-> 60]

\* MQTTClient.states, line 33
states == <<"new", "connecting", "connected", "idle", "disconnected">>

States == {states[i] : i \in 1..Len(states)}

Triggers == {"connect", "connect_fail", "connect_success", "idle", "disconnect"}

\* ------------------------------------------------------ the state machine
\* add_transition(trigger, source, dest): one row of the Machine's table.
Row(trigger, source, dest) == [trigger |-> trigger, source |-> source, dest |-> dest]

\* The table with connect_fail leading back to 'new'.
TransitionsFailToNew ==
    { Row("connect", "new", "connecting"),
      Row("connect", "disconnected", "connecting"),
      Row("connect_fail", "connecting", "new"),
      Row("connect_success", "connecting", "connected"),
      Row("idle", "connected", "idle"),
      Row("disconnect", "idle", "disconnected"),
      Row("disconnect", "connected", "disconnected") }

\* The table with connect_fail accepted in every state but 'new'.
TransitionsFailAnywhere ==
    { Row("connect", "new", "connecting"),
      Row("connect", "disconnected", "connecting"),
      Row("connect_fail", "connecting", "disconnected"),
      Row("connect_fail", "connected", "disconnected"),
      Row("connect_fail", "idle", "disconnected"),
      Row("connect_fail", "disconnected", "disconnected"),
      Row("connect_success", "connecting", "connected"),
      Row("idle", "connected", "idle"),
      Row("disconnect", "idle", "disconnected"),
      Row("disconnect", "connected", "disconnected") }

\* The table with disconnect accepted while connecting.
TransitionsDisconnectEarly ==
    { Row("connect", "new", "connecting"),
      Row("connect", "disconnected", "connecting"),
      Row("connect_fail", "connecting", "disconnected"),
      Row("connect_success", "connecting", "connected"),
      Row("idle", "connected", "idle"),
      Row("disconnect", "idle", "disconnected"),
      Row("disconnect", "connecting", "disconnected"),
      Row("disconnect", "connected", "disconnected") }

\* The table with connect_success leading to 'idle'.
TransitionsSuccessToIdle ==
    { Row("connect", "new", "connecting"),
      Row("connect", "disconnected", "connecting"),
      Row("connect_fail", "connecting", "disconnected"),
      Row("connect_success", "connecting", "idle"),
      Row("idle", "connected", "idle"),
      Row("disconnect", "idle", "disconnected"),
      Row("disconnect", "connected", "disconnected") }

\* _init_states, lines 77-85: one row per add_transition call.
Transitions ==
    { Row("connect", "new", "connecting"),
      Row("connect", "disconnected", "connecting"),
      Row("connect_fail", "connecting", "disconnected"),
      Row("connect_success", "connecting", "connected"),
      Row("idle", "connected", "idle"),
      Row("disconnect", "idle", "disconnected"),
      Row("disconnect", "connected", "disconnected") }

\* A Machine that ignores a trigger it has no row for.
FireIgnoringInvalid(trigger, st) ==
    LET rows == {r \in Transitions : r.trigger = trigger /\ r.source = st}
    IN  IF rows = {}
        THEN [ok |-> TRUE, state |-> st]
        ELSE [ok |-> TRUE, state |-> (CHOOSE r \in rows : TRUE).dest]

\* self.machine.<trigger>() fired in state st: the Machine moves along the
\* row of the trigger whose source is st, and raises MachineError, leaving
\* the state alone, when there is no such row.
Fire(trigger, st) ==
    LET rows == {r \in Transitions : r.trigger = trigger /\ r.source = st}
    IN  IF rows = {}
        THEN [ok |-> FALSE, state |-> st]
        ELSE [ok |-> TRUE, state |-> (CHOOSE r \in rows : TRUE).dest]

\* ------------------------------------------------------------ the session
\* Session(): a new object, no stream attached, state NEW.
NoSession ==
    [set |-> FALSE, state |-> "NEW", reader |-> 0, writer |-> 0,
     remote_address |-> "None", remote_port |-> NonePort,
     username |-> "None", password |-> "None", scheme |-> "None",
     clean_session |-> "None", keep_alive |-> NonePort, will_flag |-> FALSE]

Session == [NoSession EXCEPT !.set = TRUE]

\* self._session.state = SessionState.CONNECTED, line 157.
SetConnected(se) == [se EXCEPT !.state = "CONNECTED"]

\* self._session.state = SessionState.DISCONNECTED, line 161.
SetDisconnected(se) == [se EXCEPT !.state = "DISCONNECTED"]

\* self._session = None, line 123.
Release(se) == NoSession

\* Python truthiness of a string-or-None and of an int-or-None.
Truthy(v) == v # "None" /\ v # ""

TruthyInt(n) == n # NonePort /\ n # 0

\* hbmqtt.utils.not_in_dict_or_none, called at line 198.
not_in_dict_or_none(d, key) ==
    IF key = "port" THEN d.port = NonePort ELSE d[key] = "None"

\* str.lower() as urlparse applies it to the host name.
Lower(h) == IF h = "B" THEN "b" ELSE IF h = "A" THEN "a" ELSE h

\* urlparse(uri), lines 175-185: the components of
\* scheme://[user[:password]@]host[:port]; an absent component reads as ''
\* (scheme) or None, and hostname is lower-cased.
urlparse(uri) ==
    [scheme   |-> IF uri.scheme = "None" THEN "" ELSE uri.scheme,
     hostname |-> Lower(uri.host),
     port     |-> uri.port,
     username |-> uri.username,
     password |-> uri.password]

NoUri == [given |-> FALSE, scheme |-> "None", host |-> "None", port |-> NonePort,
          username |-> "None", password |-> "None"]

\* MQTTClient.__init__, lines 59-60: the configuration kept by the client
\* is the caller's, updated with _defaults.
ClientConfig(cfg) == [cfg EXCEPT !.keep_alive = _defaults.keep_alive]

\* MQTTClient.__init__, line 61: int(config.get('keep_alive', 60)) of the
\* caller's configuration.
KeepAlive(cfg) == IF cfg.keep_alive = NonePort THEN 60 ELSE cfg.keep_alive

\* _init_session, lines 164-223.  a is the record of the call's parameters.
\* The result is the session, or the key whose value is missing.
_init_session(config, a) ==
    LET b0 == config.broker
        b1 == IF ~b0.mqtt THEN [b0 EXCEPT !.scheme = "mqtt"] ELSE b0
        r  == urlparse(a.uri)
        b2 == IF a.uri.given
              THEN [b1 EXCEPT
                      !.scheme   = IF Truthy(r.scheme) THEN r.scheme ELSE @,
                      !.host     = IF Truthy(r.hostname) THEN r.hostname ELSE @,
                      !.port     = IF TruthyInt(r.port) THEN r.port ELSE @,
                      !.username = IF Truthy(r.username) THEN r.username ELSE @,
                      !.password = IF Truthy(r.password) THEN r.password ELSE @]
              ELSE b1
        b3 == [b2 EXCEPT
                 !.host     = IF Truthy(a.host) THEN a.host ELSE @,
                 !.port     = IF TruthyInt(a.port) THEN a.port ELSE @,
                 !.username = IF Truthy(a.username) THEN a.username ELSE @,
                 !.password = IF Truthy(a.password) THEN a.password ELSE @]
        missing == IF not_in_dict_or_none(b3, "scheme") THEN "scheme"
                   ELSE IF not_in_dict_or_none(b3, "host") THEN "host"
                   ELSE IF not_in_dict_or_none(b3, "port") THEN "port"
                   ELSE ""
    IN  IF missing # ""
        THEN [ok |-> FALSE, key |-> missing, s |-> NoSession]
        ELSE [ok |-> TRUE, key |-> "",
              s  |-> [Session EXCEPT
                        !.remote_address = b3.host,
                        !.remote_port    = b3.port,
                        !.username       = b3.username,
                        !.password       = b3.password,
                        !.scheme         = b3.scheme,
                        !.clean_session  = IF a.clean_session # "None"
                                           THEN a.clean_session
                                           ELSE IF config.clean_session # "None"
                                                THEN config.clean_session
                                                ELSE "True",
                        !.keep_alive     = config.keep_alive,
                        !.will_flag      = config.will]]

\* ----------------------------------------------------------------- inputs
NoBroker == [mqtt |-> FALSE, scheme |-> "None", host |-> "None", port |-> NonePort,
             username |-> "None", password |-> "None"]

\* The configuration the client of the lifecycle model is constructed with:
\* a broker section that names the host and no port.
Configs ==
    { [broker |-> [NoBroker EXCEPT !.host = "a"],
       keep_alive |-> 30, clean_session |-> "None", will |-> FALSE] }

NoArgs == [host |-> "None", port |-> NonePort, username |-> "None",
           password |-> "None", uri |-> NoUri, clean_session |-> "None"]

\* The parameters connect_async is called with in the lifecycle model.
CallArgs ==
    { NoArgs,
      [NoArgs EXCEPT !.uri = [NoUri EXCEPT !.given = TRUE, !.scheme = "mqtt",
                                           !.host = "B", !.port = 2]] }

\* ------------------------------------------------------------------ state
VARIABLES
    config,      \* self.config
    _keep_alive, \* self._keep_alive
    args,        \* the parameters BuildSession applies _init_session to
    state,       \* self.machine.current_state
    session,     \* self._session (NoSession is None)
    transports,  \* the connections asyncio.open_connection has made
    ctask,       \* the connect_async coroutines in flight
    bpc,         \* the _disconnect_coro that disconnect() runs to completion
    dpc,         \* the _disconnect_coro that disconnect() left on the loop
    ppc,         \* the _ping_coro that ping() left on the loop
    fired,       \* the triggers fired on a Machine that is driven directly
    ev           \* what the last step did and what its caller saw

vars == <<config, _keep_alive, args, state, session, transports, ctask, bpc, dpc, ppc, fired, ev>>

Tasks == 1..MaxConnects

TransportIds == 1..MaxTransports

NoTransport == [status |-> "unused", connSent |-> FALSE, acked |-> FALSE, discSent |-> FALSE]

IdleTask == [pc |-> "idle", entry |-> "none", rd |-> 0]

NoEv == [op |-> "init", res |-> "none", msg |-> "", cause |-> "", io |-> "",
         from |-> "new", ret |-> "none"]

Init ==
    /\ \E c \in Configs : config = ClientConfig(c) /\ _keep_alive = KeepAlive(c)
    /\ args = NoArgs
    /\ state = "new"
    /\ session = NoSession
    /\ transports = [n \in TransportIds |-> NoTransport]
    /\ ctask = [t \in Tasks |-> IdleTask]
    /\ bpc = "idle"
    /\ dpc = "idle"
    /\ ppc = "idle"
    /\ fired = <<>>
    /\ ev = NoEv

\* ------------------------------------------------------- exception paths
\* ClientException derives from BaseException (lines 25-26), MachineError
\* and the errors of the streams from Exception: what "except Exception"
\* (lines 90, 107, 159) catches.
IsException(res) == res \in {"MachineError", "Exception", "AttributeError"}

\* connect(), lines 87-91: what the caller of the blocking entry point sees
\* of the outcome res of the connect_async it ran.
connect(res) == IF IsException(res) \/ res = "ok" THEN "returned" ELSE res

\* What the caller of an entry point sees.
Ret(entry, res) ==
    IF res = "pending" THEN "none"
    ELSE IF entry = "connect" THEN connect(res)
    ELSE IF res = "ok" THEN "returned" ELSE res

\* connect_async, lines 102-106: a MachineError of the try block.
OnMachineError(st) ==
    LET f == Fire("connect_fail", st)
    IN  IF f.ok
        THEN [state |-> f.state, res |-> "ClientException",
              msg |-> "Connect call incompatible with client current state"]
        ELSE [state |-> st, res |-> "MachineError", msg |-> "connect_fail"]

\* _connect_coro, lines 159-162, then connect_async, lines 107-110: an
\* Exception raised inside _connect_coro.  Line 161 raises AttributeError
\* itself when the client holds no session; that is an Exception too.
OnException(st, se, cause) ==
    LET f == Fire("connect_fail", st)
    IN  [session |-> IF se.set THEN SetDisconnected(se) ELSE se,
         state   |-> f.state,
         res     |-> IF f.ok THEN "ClientException" ELSE "MachineError",
         msg     |-> IF f.ok THEN "Connection failed" ELSE "connect_fail",
         cause   |-> IF se.set THEN cause ELSE "AttributeError"]

\* _connect_coro, lines 155-156: a CONNACK that is not CONNECTION_ACCEPTED
\* raises ClientException, which neither line 159 nor lines 102 and 107
\* catch.
OnRejected(st, se) ==
    [session |-> se, state |-> st, res |-> "ClientException",
     msg |-> "Connection rejected", cause |-> "rejected"]

\* A blocking entry point (run_until_complete, lines 89 and 118) is running.
Blocked ==
    \/ bpc # "idle"
    \/ \E t \in Tasks : ctask[t].pc # "idle" /\ ctask[t].entry = "connect"

FreeTransports == {n \in TransportIds : transports[n].status = "unused"}

NextTransport == CHOOSE n \in FreeTransports : \A m \in FreeTransports : n <= m

\* The end of a step of connect task t with outcome r.
Finish(t, op, io, r) ==
    /\ state' = r.state
    /\ session' = r.session
    /\ ctask' = [ctask EXCEPT ![t] = IdleTask]
    /\ ev' = [op |-> op, res |-> r.res, msg |-> r.msg, cause |-> r.cause, io |-> io,
              from |-> state, ret |-> Ret(ctask[t].entry, r.res)]

\* ------------------------------------------------------------ connecting
\* connect_async, lines 95-100, up to the suspension in open_connection
\* (line 146); entry tells whether connect() (line 89) runs it.  The
\* coroutine takes the first free place of ctask.
ConnectCall(t, a, entry) ==
    /\ ctask[t].pc = "idle"
    /\ \A u \in Tasks : ctask[u].pc = "idle" => t <= u
    /\ entry = "connect" => ~Blocked
    /\ LET f == Fire("connect", state)
           b == _init_session(config, a)
       IN  IF ~f.ok
           THEN LET r == OnMachineError(state)
                IN  /\ state' = r.state
                    /\ ev' = [op |-> "connect_async", res |-> r.res, msg |-> r.msg,
                              cause |-> "MachineError", io |-> "", from |-> state,
                              ret |-> Ret(entry, r.res)]
                    /\ UNCHANGED <<session, ctask>>
           ELSE IF ~b.ok
           THEN /\ state' = f.state
                /\ ev' = [op |-> "connect_async", res |-> "ClientException",
                          msg |-> "Missing connection parameter", cause |-> b.key,
                          io |-> "", from |-> state,
                          ret |-> Ret(entry, "ClientException")]
                /\ UNCHANGED <<session, ctask>>
           ELSE /\ state' = f.state
                /\ session' = b.s
                /\ ctask' = [ctask EXCEPT ![t] = [pc |-> "open", entry |-> entry, rd |-> 0]]
                /\ ev' = [op |-> "connect_async", res |-> "pending", msg |-> "",
                          cause |-> "", io |-> "", from |-> state, ret |-> "none"]
    /\ UNCHANGED <<config, _keep_alive, args, transports, bpc, dpc, ppc, fired>>

\* _connect_coro, lines 145-151: open_connection has made a connection; the
\* streams are stored in the session the client holds now and the CONNECT
\* packet is written to its writer.
ConnectOpened(t) ==
    /\ ctask[t].pc = "open"
    /\ FreeTransports # {}
    /\ LET n == NextTransport
       IN  IF session.set
           THEN /\ transports' = [transports EXCEPT ![n] =
                                    [NoTransport EXCEPT !.status = "open", !.connSent = TRUE]]
                /\ session' = [session EXCEPT !.reader = n, !.writer = n]
                /\ ctask' = [ctask EXCEPT ![t].pc = "write"]
                /\ ev' = [op |-> "_connect_coro", res |-> "pending", msg |-> "",
                          cause |-> "", io |-> "opened", from |-> state, ret |-> "none"]
                /\ UNCHANGED state
           ELSE /\ transports' = [transports EXCEPT ![n] =
                                    [NoTransport EXCEPT !.status = "open"]]
                /\ Finish(t, "_connect_coro", "opened",
                          OnException(state, session, "AttributeError"))
    /\ UNCHANGED <<config, _keep_alive, args, bpc, dpc, ppc, fired>>

\* _connect_coro, lines 145-146: open_connection raised (OSError).
ConnectOpenFailed(t) ==
    /\ ctask[t].pc = "open"
    /\ Finish(t, "_connect_coro", "open_failed", OnException(state, session, "open_failed"))
    /\ UNCHANGED <<config, _keep_alive, args, transports, bpc, dpc, ppc, fired>>

\* _connect_coro, lines 151-153: to_stream has returned; from_stream is
\* called on the reader of the session the client holds now.
ConnectWritten(t) ==
    /\ ctask[t].pc = "write"
    /\ IF session.set /\ session.reader # 0
       THEN /\ ctask' = [ctask EXCEPT ![t].pc = "read", ![t].rd = session.reader]
            /\ ev' = [op |-> "_connect_coro", res |-> "pending", msg |-> "",
                      cause |-> "", io |-> "written", from |-> state, ret |-> "none"]
            /\ UNCHANGED <<state, session>>
       ELSE Finish(t, "_connect_coro", "written",
                   OnException(state, session, "AttributeError"))
    /\ UNCHANGED <<config, _keep_alive, args, transports, bpc, dpc, ppc, fired>>

\* _connect_coro, line 151: to_stream raised.
ConnectWriteFailed(t) ==
    /\ ctask[t].pc = "write"
    /\ Finish(t, "_connect_coro", "write_failed", OnException(state, session, "write_failed"))
    /\ UNCHANGED <<config, _keep_alive, args, transports, bpc, dpc, ppc, fired>>

\* The broker answers a CONNECT on a connection that is still open.
Answers(n) == transports[n].status = "open" /\ transports[n].connSent

\* _connect_coro, lines 153-158, then connect_async, line 101: the CONNACK
\* read has the return code CONNECTION_ACCEPTED.
ConnectAccepted(t) ==
    /\ ctask[t].pc = "read"
    /\ Answers(ctask[t].rd)
    /\ transports' = [transports EXCEPT ![ctask[t].rd].acked = TRUE]
    /\ IF ~session.set
       THEN Finish(t, "_connect_coro", "accepted",
                   OnException(state, session, "AttributeError"))
       ELSE LET se == SetConnected(session)
                f  == Fire("connect_success", state)
                r  == OnMachineError(state)
            IN  IF f.ok
                THEN Finish(t, "_connect_coro", "accepted",
                            [session |-> se, state |-> f.state, res |-> "ok",
                             msg |-> "", cause |-> ""])
                ELSE Finish(t, "_connect_coro", "accepted",
                            [session |-> se, state |-> r.state, res |-> r.res,
                             msg |-> r.msg, cause |-> "MachineError"])
    /\ UNCHANGED <<config, _keep_alive, args, bpc, dpc, ppc, fired>>

\* _connect_coro, lines 155-156: the CONNACK read has another return code.
ConnectRejected(t) ==
    /\ ctask[t].pc = "read"
    /\ Answers(ctask[t].rd)
    /\ Finish(t, "_connect_coro", "rejected", OnRejected(state, session))
    /\ UNCHANGED <<config, _keep_alive, args, transports, bpc, dpc, ppc, fired>>

\* _connect_coro, line 153: from_stream raised (no data, malformed packet).
ConnectMalformed(t) ==
    /\ ctask[t].pc = "read"
    /\ Finish(t, "_connect_coro", "malformed", OnException(state, session, "malformed"))
    /\ UNCHANGED <<config, _keep_alive, args, transports, bpc, dpc, ppc, fired>>

\* ---------------------------------------------------------- disconnecting
\* What a step that is no connect attempt reports.
Step(op, res, io) ==
    [op |-> op, res |-> res, msg |-> "", cause |-> "", io |-> io, from |-> state,
     ret |-> IF res = "pending" THEN "none" ELSE IF res = "ok" THEN "returned" ELSE res]

\* DisconnectPacket.to_stream(writer), lines 128: the packet goes out on a
\* connection that is open.
WriteDisconnect(n) ==
    [transports EXCEPT ![n].discSent = @ \/ transports[n].status = "open"]

\* writer.close(), line 129.
Close(n) == [transports EXCEPT ![n].status = "closed"]

\* disconnect(), lines 112-123; running is self._loop.is_running().  With
\* the loop running the coroutine is only scheduled (line 116) and lines
\* 122-123 follow at once; otherwise run_until_complete (line 118) starts
\* the loop, which runs _disconnect_coro after what is already on it.
\* One scheduled _disconnect_coro is kept at a time.
disconnect(running) ==
    /\ ~running => ~Blocked
    /\ running => dpc = "idle"
    /\ LET f == Fire("disconnect", state)
       IN  IF ~f.ok
           THEN /\ ev' = [Step("disconnect", "ClientException", "") EXCEPT
                            !.msg = "Client instance can't be disconnected",
                            !.cause = "MachineError"]
                /\ UNCHANGED <<state, session, transports, bpc, dpc>>
           ELSE IF running
           THEN /\ state' = f.state
                /\ dpc' = "sched"
                /\ session' = Release(session)
                /\ ev' = Step("disconnect", "ok", "scheduled")
                /\ UNCHANGED <<transports, bpc>>
           ELSE /\ state' = f.state
                /\ bpc' = "sched"
                /\ ev' = Step("disconnect", "pending", "")
                /\ UNCHANGED <<session, transports, dpc>>
    /\ UNCHANGED <<config, _keep_alive, args, ctask, ppc, fired>>

\* _disconnect_coro, lines 127-128, inside run_until_complete (line 118),
\* up to the suspension in to_stream; an AttributeError leaves disconnect()
\* before lines 122-123.
DisconnectStart ==
    /\ bpc = "sched"
    /\ IF session.set /\ session.writer # 0
       THEN /\ transports' = WriteDisconnect(session.writer)
            /\ bpc' = "write"
            /\ ev' = Step("disconnect_resumed", "pending", "")
       ELSE /\ bpc' = "idle"
            /\ ev' = Step("disconnect_resumed", "AttributeError", "")
            /\ UNCHANGED transports
    /\ UNCHANGED <<config, _keep_alive, args, state, session, ctask, dpc, ppc, fired>>

\* _disconnect_coro, line 129, then disconnect(), lines 122-123: to_stream
\* has returned inside run_until_complete (line 118).
DisconnectWritten ==
    /\ bpc = "write"
    /\ bpc' = "idle"
    /\ IF session.set /\ session.writer # 0
       THEN /\ transports' = Close(session.writer)
            /\ session' = Release(session)
            /\ ev' = Step("disconnect_resumed", "ok", "written")
       ELSE /\ ev' = Step("disconnect_resumed", "AttributeError", "written")
            /\ UNCHANGED <<session, transports>>
    /\ UNCHANGED <<config, _keep_alive, args, state, ctask, dpc, ppc, fired>>

\* _disconnect_coro, line 128: to_stream raised inside run_until_complete;
\* the exception leaves disconnect() before lines 122-123.
DisconnectWriteFailed ==
    /\ bpc = "write"
    /\ bpc' = "idle"
    /\ ev' = Step("disconnect_resumed", "Exception", "write_failed")
    /\ UNCHANGED <<config, _keep_alive, args, state, session, transports, ctask, dpc, ppc, fired>>

\* _disconnect_coro, lines 127-128, as the task scheduled at line 116.
DisconnectCoroStart ==
    /\ dpc = "sched"
    /\ IF session.set /\ session.writer # 0
       THEN /\ transports' = WriteDisconnect(session.writer)
            /\ dpc' = "write"
            /\ ev' = Step("_disconnect_coro", "pending", "")
       ELSE /\ dpc' = "idle"
            /\ ev' = Step("_disconnect_coro", "AttributeError", "")
            /\ UNCHANGED transports
    /\ UNCHANGED <<config, _keep_alive, args, state, session, ctask, bpc, ppc, fired>>

\* _disconnect_coro, line 129, as the task scheduled at line 116.
DisconnectCoroWritten ==
    /\ dpc = "write"
    /\ dpc' = "idle"
    /\ IF session.set /\ session.writer # 0
       THEN /\ transports' = Close(session.writer)
            /\ ev' = Step("_disconnect_coro", "ok", "written")
       ELSE /\ ev' = Step("_disconnect_coro", "AttributeError", "written")
            /\ UNCHANGED transports
    /\ UNCHANGED <<config, _keep_alive, args, state, session, ctask, bpc, ppc, fired>>

\* _disconnect_coro, line 128, as the task scheduled at line 116: to_stream
\* raised.
DisconnectCoroWriteFailed ==
    /\ dpc = "write"
    /\ dpc' = "idle"
    /\ ev' = Step("_disconnect_coro", "Exception", "write_failed")
    /\ UNCHANGED <<config, _keep_alive, args, state, session, transports, ctask, bpc, ppc, fired>>

\* ------------------------------------------------------------- keepalive
\* ping(), lines 131-132: the coroutine is left on the loop.  One _ping_coro
\* is kept at a time.
ping ==
    /\ ppc = "idle"
    /\ ppc' = "sched"
    /\ ev' = Step("ping", "ok", "scheduled")
    /\ UNCHANGED <<config, _keep_alive, args, state, session, transports, ctask, bpc, dpc, fired>>

\* _ping_coro, lines 136-138, up to the suspension in to_stream.
PingStart ==
    /\ ppc = "sched"
    /\ IF session.set /\ session.writer # 0
       THEN /\ ppc' = "write"
            /\ ev' = Step("_ping_coro", "pending", "")
       ELSE /\ ppc' = "idle"
            /\ ev' = Step("_ping_coro", "AttributeError", "")
    /\ UNCHANGED <<config, _keep_alive, args, state, session, transports, ctask, bpc, dpc, fired>>

\* _ping_coro, line 139, up to the suspension in from_stream.
PingWritten ==
    /\ ppc = "write"
    /\ IF session.set /\ session.reader # 0
       THEN /\ ppc' = "read"
            /\ ev' = Step("_ping_coro", "pending", "written")
       ELSE /\ ppc' = "idle"
            /\ ev' = Step("_ping_coro", "AttributeError", "written")
    /\ UNCHANGED <<config, _keep_alive, args, state, session, transports, ctask, bpc, dpc, fired>>

\* _ping_coro, line 138: to_stream raised.
PingWriteFailed ==
    /\ ppc = "write"
    /\ ppc' = "idle"
    /\ ev' = Step("_ping_coro", "Exception", "write_failed")
    /\ UNCHANGED <<config, _keep_alive, args, state, session, transports, ctask, bpc, dpc, fired>>

\* _ping_coro, lines 139-140: from_stream returned the PINGRESP, or raised.
PingRead(ok) ==
    /\ ppc = "read"
    /\ ppc' = "idle"
    /\ ev' = Step("_ping_coro", IF ok THEN "ok" ELSE "Exception",
                  IF ok THEN "pingresp" ELSE "malformed")
    /\ UNCHANGED <<config, _keep_alive, args, state, session, transports, ctask, bpc, dpc, fired>>

\* ------------------------------------------------------- specifications
\* The client used through connect, connect_async and disconnect, every
\* coroutine resumed in any order the event loop may choose.
Next ==
    \/ \E t \in Tasks, a \in CallArgs, entry \in {"connect", "connect_async"} :
          ConnectCall(t, a, entry)
    \/ \E t \in Tasks : ConnectOpened(t)
    \/ \E t \in Tasks : ConnectOpenFailed(t)
    \/ \E t \in Tasks : ConnectWritten(t)
    \/ \E t \in Tasks : ConnectWriteFailed(t)
    \/ \E t \in Tasks : ConnectAccepted(t)
    \/ \E t \in Tasks : ConnectRejected(t)
    \/ \E t \in Tasks : ConnectMalformed(t)
    \/ \E running \in BOOLEAN : disconnect(running)
    \/ DisconnectStart
    \/ DisconnectWritten
    \/ DisconnectWriteFailed
    \/ DisconnectCoroStart
    \/ DisconnectCoroWritten
    \/ DisconnectCoroWriteFailed

Spec == Init /\ [][Next]_vars

\* The steps of the keepalive path.
PingStep ==
    \/ ping
    \/ PingStart
    \/ PingWritten
    \/ PingWriteFailed
    \/ \E ok \in BOOLEAN : PingRead(ok)

\* The client used through all its public operations, ping included.
KeepaliveNext == Next \/ PingStep

KeepaliveSpec == Init /\ [][KeepaliveNext]_vars

\* No connect attempt and no blocking disconnect is under way.
Quiet == bpc = "idle" /\ \A t \in Tasks : ctask[t].pc = "idle"

\* The client whose caller issues connect and disconnect one at a time,
\* each after the one before has completed; the coroutines that ping() and
\* disconnect() leave on the loop still run whenever the loop resumes them.
SerialNext ==
    \/ \E t \in Tasks, a \in CallArgs, entry \in {"connect", "connect_async"} :
          Quiet /\ ConnectCall(t, a, entry)
    \/ \E t \in Tasks : ConnectOpened(t)
    \/ \E t \in Tasks : ConnectOpenFailed(t)
    \/ \E t \in Tasks : ConnectWritten(t)
    \/ \E t \in Tasks : ConnectWriteFailed(t)
    \/ \E t \in Tasks : ConnectAccepted(t)
    \/ \E t \in Tasks : ConnectRejected(t)
    \/ \E t \in Tasks : ConnectMalformed(t)
    \/ \E running \in BOOLEAN : Quiet /\ disconnect(running)
    \/ DisconnectStart
    \/ DisconnectWritten
    \/ DisconnectWriteFailed
    \/ DisconnectCoroStart
    \/ DisconnectCoroWritten
    \/ DisconnectCoroWriteFailed
    \/ PingStep

SerialSpec == Init /\ [][SerialNext]_vars

\* The Machine of _init_states driven directly: any trigger at any time.
Trigger(tr) ==
    /\ Len(fired) < MaxFired
    /\ LET f == Fire(tr, state)
       IN  /\ state' = f.state
           /\ ev' = [Step("trigger", IF f.ok THEN "ok" ELSE "MachineError", "")
                       EXCEPT !.msg = tr]
    /\ fired' = Append(fired, tr)
    /\ UNCHANGED <<config, _keep_alive, args, session, transports, ctask, bpc, dpc, ppc>>

MachineNext == \E tr \in Triggers : Trigger(tr)

MachineSpec == Init /\ [][MachineNext]_vars

\* The broker sections _init_session is applied to on its own: each key
\* present or absent, the key 'mqtt' that line 167 tests included.
BuilderBrokers ==
    { [mqtt |-> m, scheme |-> s, host |-> h, port |-> p, username |-> u,
       password |-> "None"] :
        m \in BOOLEAN, s \in {"None", "mqtts"}, h \in {"None", "a"},
        p \in {NonePort, 1}, u \in {"None", "u"} }

BuilderConfigs ==
    { [broker |-> b, keep_alive |-> k, clean_session |-> "None", will |-> FALSE] :
        b \in BuilderBrokers, k \in {NonePort, 30} }

\* The URIs: none, or scheme://[user@]host[:port] with each component
\* present or absent.
BuilderUris ==
    {NoUri} \cup
    { [given |-> TRUE, scheme |-> s, host |-> h, port |-> p, username |-> u,
       password |-> "None"] :
        s \in {"None", "ws"}, h \in {"None", "B"}, p \in {NonePort, 2},
        u \in {"None", "v"} }

\* The parameters of the call: each given or not.
BuilderArgs ==
    { [host |-> h, port |-> p, username |-> u, password |-> w, uri |-> r,
       clean_session |-> "None"] :
        h \in {"None", "c"}, p \in {NonePort, 3}, u \in {"None", "w"},
        w \in {"None", "x"}, r \in BuilderUris }

BuilderInit ==
    /\ \E c \in BuilderConfigs : config = ClientConfig(c) /\ _keep_alive = KeepAlive(c)
    /\ args \in BuilderArgs
    /\ state = "new"
    /\ session = NoSession
    /\ transports = [n \in TransportIds |-> NoTransport]
    /\ ctask = [t \in Tasks |-> IdleTask]
    /\ bpc = "idle"
    /\ dpc = "idle"
    /\ ppc = "idle"
    /\ fired = <<>>
    /\ ev = NoEv

\* self._session = self._init_session(**args), line 97, on its own: the
\* session built is stored, or ClientException (line 199) names the key
\* that is missing.
BuildSession ==
    /\ ev.op = "init"
    /\ LET b == _init_session(config, args)
       IN  /\ session' = b.s
           /\ ev' = [NoEv EXCEPT
                       !.op = "_init_session",
                       !.res = IF b.ok THEN "ok" ELSE "ClientException",
                       !.msg = IF b.ok THEN "" ELSE "Missing connection parameter",
                       !.cause = b.key,
                       !.ret = IF b.ok THEN "returned" ELSE "ClientException"]
    /\ UNCHANGED <<config, _keep_alive, args, state, transports, ctask, bpc, dpc, ppc, fired>>

BuilderNext == BuildSession

BuilderSpec == BuilderInit /\ [][BuilderNext]_vars

\* ================================================================ claims
Last(q) == q[Len(q)]

\* The transition table as the specification writes it (section 4.1).
TableEdges ==
    { <<"connect", "new", "connecting">>,
      <<"connect", "disconnected", "connecting">>,
      <<"connect_success", "connecting", "connected">>,
      <<"connect_fail", "connecting", "disconnected">>,
      <<"idle", "connected", "idle">>,
      <<"disconnect", "connected", "disconnected">>,
      <<"disconnect", "idle", "disconnected">> }

ValidSources(tr) == {e[2] : e \in {x \in TableEdges : x[1] = tr}}

\* C1: whatever sequence of triggers is fired on the machine from 'new', the
\* current state is one of the five states and every change of state is an
\* edge of the table.
C1_StatesAndEdges ==
    /\ [](state \in {"new", "connecting", "connected", "idle", "disconnected"})
    /\ [][fired' # fired /\ state' # state
            => <<Last(fired'), state, state'>> \in TableEdges]_vars

\* A sequence of triggers that has walked new, connecting, connected, idle,
\* disconnected.
C1_Witness ==
    /\ fired = <<"connect", "connect_success", "idle", "disconnect">>
    /\ state = "disconnected"

\* C2: a trigger fired from a state that is not one of its valid sources
\* raises MachineError and leaves the current state as it was.
C2_InvalidTriggerRaises ==
    [][fired' # fired /\ state \notin ValidSources(Last(fired'))
         => ev'.res = "MachineError" /\ state' = state]_vars

\* disconnect has been fired on a machine that was still 'new'.
C2_Witness ==
    /\ ev.op = "trigger" /\ ev.msg = "disconnect" /\ ev.from = "new"
    /\ ev.res = "MachineError"
    /\ state = "new"

\* C3: a connect_async whose transport opened and whose CONNACK is
\* 'accepted' returns without error, with the lifecycle state connected and
\* the session's status CONNECTED.
C3_AcceptedConnects ==
    ev.op = "_connect_coro" /\ ev.io = "accepted"
        => /\ ev.res = "ok"
           /\ ev.ret = "returned"
           /\ state = "connected"
           /\ session.set /\ session.state = "CONNECTED"

\* C4: a CONNACK with another return code makes connect_async raise the
\* rejection, sets the session's status to DISCONNECTED and fires
\* connect_fail, so that the lifecycle state is disconnected.
C4_RejectedConnects ==
    ev.op = "_connect_coro" /\ ev.io = "rejected"
        => /\ ev.res = "ClientException" /\ ev.cause = "rejected"
           /\ session.set /\ session.state = "DISCONNECTED"
           /\ state = "disconnected"

\* C5: a connect attempt whose open_connection, to_stream or from_stream
\* raised ends with the lifecycle state disconnected and the session's
\* status DISCONNECTED, and its caller gets a ClientException that wraps the
\* cause.
C5_FailedConnects ==
    ev.op = "_connect_coro" /\ ev.io \in {"open_failed", "write_failed", "malformed"}
        => /\ ev.res = "ClientException"
           /\ ev.msg = "Connection failed" /\ ev.cause = ev.io
           /\ ev.ret = "ClientException"
           /\ state = "disconnected"
           /\ session.set /\ session.state = "DISCONNECTED"

\* C6: a connect whose scheme, host or port is missing after resolution
\* raises the missing-parameter error that names the field, opens no
\* transport and leaves the lifecycle state disconnected.
C6_MissingParameter ==
    [][ev'.op = "connect_async" /\ ev'.msg = "Missing connection parameter"
         => /\ ev'.res = "ClientException"
            /\ ev'.cause \in {"scheme", "host", "port"}
            /\ transports' = transports
            /\ state' = "disconnected"]_vars

C8_DisconnectRefused ==
    [][ev'.op = "disconnect" /\ state \in {"new", "connecting", "disconnected"}
         => /\ ev'.res = "ClientException" /\ ev'.cause = "MachineError"
            /\ state' = state
            /\ session' = session
            /\ transports' = transports
            /\ bpc' = bpc /\ dpc' = dpc]_vars

\* disconnect() has been refused while a connect attempt was under way.
C8_Witness ==
    /\ ev.op = "disconnect" /\ ev.from = "connecting" /\ ev.res = "ClientException"
    /\ state = "connecting"
    /\ session.set

\* C9: when disconnect() has returned, the lifecycle state is disconnected
\* and the client holds no session; a connect_async called in disconnected
\* is accepted by the machine, and the session it builds has no stream
\* attached.
C9_DisconnectThenConnect ==
    /\ ev.op \in {"disconnect", "disconnect_resumed"} /\ ev.res = "ok"
         => state = "disconnected" /\ ~session.set
    /\ ev.op = "connect_async" /\ ev.from = "disconnected"
         => /\ ev.cause # "MachineError"
            /\ state = "connecting"
            /\ ev.res = "pending"
                 => /\ session.set /\ session.state = "NEW"
                    /\ session.reader = 0 /\ session.writer = 0

\* C10: the client holds no session whenever the lifecycle state is new or
\* disconnected.
C10_NoSessionWhenDisconnected ==
    state \in {"new", "disconnected"} => ~session.set

\* C11: a connect attempt that failed, whichever entry point ran it, has
\* raised to the caller of that entry point: the blocking connect() never
\* returns normally from a connect_async that ended in an error.
C11_ConnectFailuresRaise ==
    ev.op \in {"connect_async", "_connect_coro"} /\ ev.res \notin {"ok", "pending"}
        => ev.ret # "returned"

\* A connect_async is suspended at an I/O point of _connect_coro.
InFlight == \E t \in Tasks : ctask[t].pc # "idle"

\* C12: while a connect_async is suspended at an I/O point and the lifecycle
\* state is connecting, a second connect_async or a disconnect on the client
\* is refused, and leaves the lifecycle state and the session of the attempt
\* in flight as they were.
C12_NoInterleavedConnect ==
    [][InFlight /\ state = "connecting" /\ ev'.op \in {"connect_async", "disconnect"}
         => /\ ev'.res \in {"ClientException", "MachineError"}
            /\ state' = state
            /\ session' = session]_vars

\* C13: when a disconnect the machine accepted lets go of the session, with
\* the loop running or not, the DISCONNECT packet has been written to the
\* transport of that session and the transport has been closed.
C13_DisconnectCleansUp ==
    [][ev'.op \in {"disconnect", "disconnect_resumed"} /\ session.set /\ ~session'.set
         => /\ session.writer # 0
            /\ transports'[session.writer].discSent
            /\ transports'[session.writer].status = "closed"]_vars

\* The first of the values vs, listed from the highest priority down, that
\* is supplied; none is the value of a field nothing supplies.
FirstSupplied(vs, none) ==
    LET I == {i \in 1..Len(vs) : vs[i] # none}
    IN  IF I = {} THEN none ELSE vs[CHOOSE i \in I : \A j \in I : i <= j]

\* The component of the URI of the call a, when a URI is given and has it.
UriPart(a, part) ==
    LET r == urlparse(a.uri)
    IN  IF ~a.uri.given THEN (IF part = "port" THEN NonePort ELSE "None")
        ELSE IF part = "scheme" THEN (IF r.scheme = "" THEN "None" ELSE r.scheme)
        ELSE IF part = "host" THEN r.hostname
        ELSE r[part]

\* C14: each of scheme, host, port, username and password of a session the
\* builder made is the value of the highest-priority source that supplies
\* it: explicit parameter, then URI component, then broker section, then
\* built-in default.
C14_Precedence ==
    ev.op = "_init_session" /\ ev.res = "ok"
        => /\ session.scheme =
                FirstSupplied(<<UriPart(args, "scheme"), config.broker.scheme, "mqtt">>, "None")
           /\ session.remote_address =
                FirstSupplied(<<args.host, UriPart(args, "host"), config.broker.host>>, "None")
           /\ session.remote_port =
                FirstSupplied(<<args.port, UriPart(args, "port"), config.broker.port>>, NonePort)
           /\ session.username =
                FirstSupplied(<<args.username, UriPart(args, "username"),
                                config.broker.username>>, "None")
           /\ session.password =
                FirstSupplied(<<args.password, UriPart(args, "password"),
                                config.broker.password>>, "None")

\* C15: the keep-alive of a session the builder made is the keep_alive of
\* the configuration the client was constructed with when that gives one,
\* and 60 when it does not: the value line 61 keeps in self._keep_alive.
C15_KeepAliveFromConfig ==
    ev.op = "_init_session" /\ ev.res = "ok" => session.keep_alive = _keep_alive

\* The connections the client has opened and not closed.
OpenTransports == {n \in TransportIds : transports[n].status = "open"}

\* C16: at most one transport opened by the client is open at any time, and
\* none is open while the lifecycle state is new or disconnected.
C16_NoTransportLeaked ==
    /\ Cardinality(OpenTransports) <= 1
    /\ state \in {"new", "disconnected"} => OpenTransports = {}

\* C17: a CONNECT has been written only to a transport that was opened, a
\* CONNACK has been read only from a transport a CONNECT was written to, and
\* the lifecycle state is connected only if the session the client holds
\* has the status CONNECTED and an 'accepted' CONNACK was read from its
\* transport.
C17_HandshakeGatesConnected ==
    /\ \A n \in TransportIds :
          /\ transports[n].connSent => transports[n].status # "unused"
          /\ transports[n].acked => transports[n].connSent
    /\ state = "connected"
         => /\ session.set /\ session.state = "CONNECTED"
            /\ session.reader # 0
            /\ transports[session.reader].acked

\* C18: whenever the coroutine that ping() scheduled has run, at its start
\* or at a resumption, the client held a session and the transport of that
\* session was open.  (No step of _ping_coro changes the session or a
\* transport, so what it found is what the state after it shows.)
C18_PingHoldsOpenSession ==
    ev.op = "_ping_coro"
        => /\ session.set
           /\ session.writer # 0
           /\ transports[session.writer].status = "open"

\* C19: whatever connect, connect_async, disconnect and ping are called, and
\* however their coroutines interleave, the lifecycle state is new,
\* connecting, connected or disconnected, never idle.
C19_NeverIdle ==
    state \in {"new", "connecting", "connected", "disconnected"}

\* A client that has been through new, connecting, connected and
\* disconnected, with a _ping_coro still waiting for its PINGRESP.
C19_Witness ==
    /\ state = "disconnected"
    /\ ev.op = "disconnect_resumed" /\ ev.res = "ok" /\ ev.from = "disconnected"
    /\ ppc = "read"

====
